---- MODULE Spec2Model ----
(***************************************************************************)
(* HealthChat (src/app.py): ingestion of arXiv feed entries into the       *)
(* papers table through the module-level sqlite connection and cursor, and *)
(* the research-based answering of a question over that table.             *)
(*                                                                         *)
(* Text is a sequence of tokens (a token is a word, a blank " ", or a      *)
(* separator such as "."); lengths are counted in tokens.  Similarity      *)
(* scores are in hundredths (0.25 is 25).                                  *)
(***************************************************************************)
EXTENDS Integers, Sequences, FiniteSets, TLC

VARIABLES
    feeds,      \* what feedparser.parse(ARXIV_FEEDS[i]) yields: a sequence of entries
    papers,     \* the rows of table papers, in rowid order
    committed,  \* number of rows made durable by conn.commit()
    cursor,     \* pending result rows of the shared cursor c
    clock,      \* datetime.utcnow(), as a logical time
    pc,         \* per request thread: position inside fetch_arxiv_papers
    fi,         \* per thread: index of feed_url in ARXIV_FEEDS
    ei,         \* per thread: index of entry in feed.entries
    entry,      \* per thread: the locals title, abstract, pdf_url, added_on
    added,      \* per thread: the local counter added
    log,        \* the calls of /fetch_papers: when each began and how it ended
    resp        \* the last get_best_answer evaluation: table read, scores, result

vars == <<feeds, papers, committed, cursor, clock, pc, fi, ei, entry, added, log, resp>>

----------------------------------------------------------------------------
(* Bounds *)

\* total number of entries over the two feeds
MaxEntries == 2

(* Program constants *)

\* len(ARXIV_FEEDS)
NFeeds == 2

\* score < 0.25, in hundredths
Threshold == 25

\* the text-length budget of the evidence context (tokens)
Budget == 3

\* the request threads of the threaded development server
Threads == {1, 2}

----------------------------------------------------------------------------
(* Text *)

Whitespace == {" "}

RECURSIVE LStrip(_)
LStrip(s) ==
    IF s # <<>> /\ Head(s) \in Whitespace THEN LStrip(Tail(s)) ELSE s

RECURSIVE RStrip(_)
RStrip(s) ==
    IF s # <<>> /\ s[Len(s)] \in Whitespace
    THEN RStrip(SubSeq(s, 1, Len(s) - 1))
    ELSE s

\* str.strip()
Strip(s) == RStrip(LStrip(s))

\* str.replace(old, new), token-wise
Replace(s, old, new) == [i \in DOMAIN s |-> IF s[i] = old THEN new ELSE s[i]]

----------------------------------------------------------------------------
(* Feed contents *)

Fields == {"title", "summary", "link"}

Catalogue ==
    { [title |-> <<" ", "heart">>, summary |-> <<"risk", " ">>,
       link |-> <<"arxiv.org/", "abs", "/1">>],
      [title |-> <<"heart">>, summary |-> <<"exercise", "lowers", "the", "risk">>,
       link |-> <<"arxiv.org/", "abs", "/2">>],
      [title |-> <<"risk">>, summary |-> <<"heart">>,
       link |-> <<"arxiv.org/", "abs", "/3">>],
      [title |-> <<"the">>, summary |-> <<>>,
       link |-> <<"arxiv.org/", "abs", "/4">>],
      [title |-> <<"exercise">>,
       link |-> <<"arxiv.org/", "abs", "/5">>] }

FeedsUpTo(n) == UNION { [1..k -> Catalogue] : k \in 0..n }

FeedChoices ==
    { f \in [1..NFeeds -> FeedsUpTo(MaxEntries)] :
        Len(f[1]) + Len(f[2]) <= MaxEntries }

WellFormed(e) == Fields \subseteq DOMAIN e

----------------------------------------------------------------------------
(* The papers table and the shared cursor *)

Titles(tbl) == { tbl[i].title : i \in DOMAIN tbl }

\* SELECT id FROM papers WHERE title=?
SelectId(tbl, title) ==
    LET hit == { i \in DOMAIN tbl : tbl[i].title = title }
    IN  IF hit = {} THEN <<>> ELSE << tbl[CHOOSE i \in hit : \A j \in hit : i <= j].id >>

NoEntry == [title |-> <<>>, abstract |-> <<>>, pdf_url |-> <<>>, added_on |-> 0]

Event(op, t, ret, exc) ==
    [op |-> op, t |-> t, corpus |-> papers, ret |-> ret, exc |-> exc]

Active == {"for_feed", "for_entry", "select", "fetchone", "insert", "commit"}

Quiet == \A u \in Threads : pc[u] \notin Active

----------------------------------------------------------------------------
Init ==
    /\ feeds \in FeedChoices
    /\ papers = <<>>
    /\ committed = 0
    /\ cursor = <<>>
    /\ clock = 1
    /\ pc = [t \in Threads |-> "idle"]
    /\ fi = [t \in Threads |-> 0]
    /\ ei = [t \in Threads |-> 0]
    /\ entry = [t \in Threads |-> NoEntry]
    /\ added = [t \in Threads |-> 0]
    /\ log = <<>>
    /\ resp = [df |-> <<>>, sims |-> <<>>, out |-> [kind |-> "none", text |-> <<>>]]

----------------------------------------------------------------------------
(* fetch_arxiv_papers, one step per statement that touches shared state *)

\* def fetch_arxiv_papers(): added = 0
Call(t) ==
    /\ pc[t] = "idle"
    /\ pc' = [pc EXCEPT ![t] = "for_feed"]
    /\ added' = [added EXCEPT ![t] = 0]
    /\ fi' = [fi EXCEPT ![t] = 1]
    /\ log' = Append(log, Event("call", t, 0, "none"))
    /\ UNCHANGED <<feeds, papers, committed, cursor, clock, ei, entry, resp>>

\* for feed_url in ARXIV_FEEDS: feed = feedparser.parse(feed_url)
\* (feedparser reports a failed or malformed source in feed.bozo and yields the
\* entries it could read, possibly none: such a source is a shorter or empty feed)
ParseFeed(t) ==
    /\ pc[t] = "for_feed"
    /\ fi[t] <= NFeeds
    /\ ei' = [ei EXCEPT ![t] = 1]
    /\ pc' = [pc EXCEPT ![t] = "for_entry"]
    /\ UNCHANGED <<feeds, papers, committed, cursor, clock, fi, entry, added, log, resp>>

\* the slip "return the size of the corpus" for "return added"
ReturnCorpusSize(t) ==
    /\ pc[t] = "for_feed"
    /\ fi[t] > NFeeds
    /\ pc' = [pc EXCEPT ![t] = "done"]
    /\ log' = Append(log, Event("return", t, Len(papers), "none"))
    /\ UNCHANGED <<feeds, papers, committed, cursor, clock, fi, ei, entry, added, resp>>

\* return added
Return(t) ==
    /\ pc[t] = "for_feed"
    /\ fi[t] > NFeeds
    /\ pc' = [pc EXCEPT ![t] = "done"]
    /\ log' = Append(log, Event("return", t, added[t], "none"))
    /\ UNCHANGED <<feeds, papers, committed, cursor, clock, fi, ei, entry, added, resp>>

\* for entry in feed.entries: title, abstract, pdf_url, added_on = ...
\* (a missing attribute of the entry raises AttributeError, which nothing catches)
ReadEntry(t) ==
    /\ pc[t] = "for_entry"
    /\ ei[t] <= Len(feeds[fi[t]])
    /\ LET e == feeds[fi[t]][ei[t]]
       IN  IF WellFormed(e)
           THEN /\ entry' = [entry EXCEPT ![t] =
                                [title    |-> Strip(e.title),
                                 abstract |-> Strip(e.summary),
                                 pdf_url  |-> Replace(e.link, "abs", "pdf"),
                                 added_on |-> clock]]
                /\ clock' = clock + 1
                /\ pc' = [pc EXCEPT ![t] = "select"]
                /\ log' = log
           ELSE /\ pc' = [pc EXCEPT ![t] = "raised"]
                /\ log' = Append(log, Event("raise", t, 0, "AttributeError"))
                /\ UNCHANGED <<entry, clock>>
    /\ UNCHANGED <<feeds, papers, committed, cursor, fi, ei, added, resp>>

\* feed.entries is exhausted: next feed_url
EndFeed(t) ==
    /\ pc[t] = "for_entry"
    /\ ei[t] > Len(feeds[fi[t]])
    /\ fi' = [fi EXCEPT ![t] = fi[t] + 1]
    /\ pc' = [pc EXCEPT ![t] = "for_feed"]
    /\ UNCHANGED <<feeds, papers, committed, cursor, clock, ei, entry, added, log, resp>>

\* c.execute("SELECT id FROM papers WHERE title=?", (title,))
Select(t) ==
    /\ pc[t] = "select"
    /\ cursor' = SelectId(papers, entry[t].title)
    /\ pc' = [pc EXCEPT ![t] = "fetchone"]
    /\ UNCHANGED <<feeds, papers, committed, clock, fi, ei, entry, added, log, resp>>

\* the slip "added += 1" ahead of the existence check: skipped entries count too
FetchoneCountSkipped(t) ==
    /\ pc[t] = "fetchone"
    /\ IF cursor # <<>>
       THEN /\ cursor' = Tail(cursor)
            /\ ei' = [ei EXCEPT ![t] = ei[t] + 1]
            /\ added' = [added EXCEPT ![t] = added[t] + 1]
            /\ pc' = [pc EXCEPT ![t] = "for_entry"]
       ELSE /\ pc' = [pc EXCEPT ![t] = "insert"]
            /\ UNCHANGED <<cursor, ei, added>>
    /\ UNCHANGED <<feeds, papers, committed, clock, fi, entry, log, resp>>

\* if c.fetchone(): continue
Fetchone(t) ==
    /\ pc[t] = "fetchone"
    /\ IF cursor # <<>>
       THEN /\ cursor' = Tail(cursor)
            /\ ei' = [ei EXCEPT ![t] = ei[t] + 1]
            /\ pc' = [pc EXCEPT ![t] = "for_entry"]
       ELSE /\ pc' = [pc EXCEPT ![t] = "insert"]
            /\ UNCHANGED <<cursor, ei>>
    /\ UNCHANGED <<feeds, papers, committed, clock, fi, entry, added, log, resp>>

\* the table declared without UNIQUE on title: every INSERT succeeds
InsertNoUnique(t) ==
    /\ pc[t] = "insert"
    /\ cursor' = <<>>
    /\ papers' = Append(papers,
                    [id       |-> Len(papers) + 1,
                     title    |-> entry[t].title,
                     abstract |-> entry[t].abstract,
                     pdf_url  |-> entry[t].pdf_url,
                     added_on |-> entry[t].added_on])
    /\ pc' = [pc EXCEPT ![t] = "commit"]
    /\ UNCHANGED <<feeds, committed, clock, fi, ei, entry, added, log, resp>>

\* c.execute("INSERT INTO papers (title, abstract, pdf_url, added_on) VALUES ...")
\* title TEXT UNIQUE: a title already in the table raises sqlite3.IntegrityError
Insert(t) ==
    /\ pc[t] = "insert"
    /\ cursor' = <<>>
    /\ IF entry[t].title \in Titles(papers)
       THEN /\ pc' = [pc EXCEPT ![t] = "raised"]
            /\ log' = Append(log, Event("raise", t, 0, "IntegrityError"))
            /\ papers' = papers
       ELSE /\ papers' = Append(papers,
                            [id       |-> Len(papers) + 1,
                             title    |-> entry[t].title,
                             abstract |-> entry[t].abstract,
                             pdf_url  |-> entry[t].pdf_url,
                             added_on |-> entry[t].added_on])
            /\ pc' = [pc EXCEPT ![t] = "commit"]
            /\ log' = log
    /\ UNCHANGED <<feeds, committed, clock, fi, ei, entry, added, resp>>

\* conn.commit(); added += 1
Commit(t) ==
    /\ pc[t] = "commit"
    /\ committed' = Len(papers)
    /\ added' = [added EXCEPT ![t] = added[t] + 1]
    /\ ei' = [ei EXCEPT ![t] = ei[t] + 1]
    /\ pc' = [pc EXCEPT ![t] = "for_entry"]
    /\ UNCHANGED <<feeds, papers, cursor, clock, fi, entry, log, resp>>

Step(t) ==
    \/ ParseFeed(t)
    \/ Return(t)
    \/ ReadEntry(t)
    \/ EndFeed(t)
    \/ Select(t)
    \/ Fetchone(t)
    \/ Insert(t)
    \/ Commit(t)

----------------------------------------------------------------------------
(* Concurrent /fetch_papers requests on the shared connection and cursor *)

Next == \E t \in Threads : Call(t) \/ Step(t)

Spec == Init /\ [][Next]_vars

----------------------------------------------------------------------------
(* load_vector_index and get_best_answer *)

\* TfidfVectorizer(stop_words="english"): the english stop words among the tokens
StopWords == {"the"}

\* tokens that are no terms: blanks and the ". " that joins title and abstract
Separators == Whitespace \cup {"."}

\* df["title"] + ". " + df["abstract"]
Document(row) == row.title \o <<".", " ">> \o row.abstract

Terms(text) == { text[i] : i \in DOMAIN text } \ (Separators \cup StopWords)

\* the vocabulary fit_transform learns from the documents
Vocabulary(tbl) == UNION { Terms(Document(tbl[i])) : i \in DOMAIN tbl }

\* cosine similarities come in hundredths from this set
Scores == {0, 24, 25, 60}

\* cosine_similarity(user_vec, vectors).flatten(): one score per document, some
\* question producing it; a document without terms has a zero vector and scores 0
Sims(tbl) ==
    { s \in [DOMAIN tbl -> Scores] :
        \A i \in DOMAIN tbl : Terms(Document(tbl[i])) = {} => s[i] = 0 }

\* numpy argmax: the first index of the maximum
Argmax(s) ==
    CHOOSE i \in DOMAIN s :
        /\ \A j \in DOMAIN s : s[j] <= s[i]
        /\ \A j \in DOMAIN s : j < i => s[j] < s[i]

NoPapersMsg ==
    << "No research papers available yet.", "Please fetch papers first." >>

WeakEvidenceMsg ==
    << "I could not find strong evidence in the current research papers.",
       "Please consult a medical professional." >>

\* the f-string of lines 123-127
EvidenceText(paper) ==
    <<"Based on research findings:", "\n\n">> \o paper.abstract
        \o <<"\n\n", "Source:">> \o paper.title \o <<"\n">> \o paper.pdf_url

Value(text) == [kind |-> "value", text |-> text]

Raised(exc) == [kind |-> "raise", text |-> <<exc>>]

\* load_vector_index() fails in fit_transform when no document has a term:
\* ValueError("empty vocabulary; perhaps the documents only contain stop words")
IndexFails(tbl) == tbl # <<>> /\ Vocabulary(tbl) = {}

\* get_best_answer without the "if df is None" guard
GetBestAnswerNoEmptyCheck(tbl, s) ==
    IF Vocabulary(tbl) = {} THEN Raised("ValueError")
    ELSE LET top_idx == Argmax(s)
             score   == s[top_idx]
         IN  IF score < Threshold
             THEN Value(WeakEvidenceMsg)
             ELSE Value(EvidenceText(tbl[top_idx]))

\* get_best_answer(question), given the table it reads and the scores of the question
GetBestAnswer(tbl, s) ==
    IF tbl = <<>> THEN Value(NoPapersMsg)
    ELSE IF IndexFails(tbl) THEN Raised("ValueError")
    ELSE LET top_idx == Argmax(s)
             score   == s[top_idx]
         IN  IF score < Threshold
             THEN Value(WeakEvidenceMsg)
             ELSE Value(EvidenceText(tbl[top_idx]))

\* /get_response: a question is answered from the table as it is now
Ask ==
    /\ \E s \in (IF papers = <<>> \/ IndexFails(papers) THEN {<<>>} ELSE Sims(papers)) :
          resp' = [df |-> papers, sims |-> s, out |-> GetBestAnswer(papers, s)]
    /\ UNCHANGED <<feeds, papers, committed, cursor, clock, pc, fi, ei, entry, added, log>>

\* /fetch_papers requests served one after the other
SeqCall(t) == Quiet /\ Call(t)

NextAsk == (\E t \in Threads : SeqCall(t) \/ Step(t)) \/ Ask

SpecAsk == Init /\ [][NextAsk]_vars

----------------------------------------------------------------------------
(* Properties.  The log orders the calls: a call ran alone when every other *)
(* call had ended before it began and none began before it ended.           *)

Ended == {"return", "raise"}

\* thread u has a call in progress just before event c of the log
InProgress(u, c) ==
    Cardinality({ k \in 1..(c - 1) : log[k].t = u /\ log[k].op = "call" })
        # Cardinality({ k \in 1..(c - 1) : log[k].t = u /\ log[k].op \in Ended })

\* event i is the return of a call that ran alone (its call is event i - 1)
RanAlone(i) ==
    /\ i > 1
    /\ log[i].op = "return"
    /\ log[i - 1].op = "call"
    /\ log[i - 1].t = log[i].t
    /\ \A u \in Threads \ {log[i].t} : ~InProgress(u, i - 1)

RECURSIVE SumReturned(_)
SumReturned(l) ==
    IF l = <<>> THEN 0
    ELSE (IF Head(l).op = "return" THEN Head(l).ret ELSE 0) + SumReturned(Tail(l))

RECURSIVE SumAdded(_)
SumAdded(S) ==
    IF S = {} THEN 0
    ELSE LET t == CHOOSE u \in S : TRUE IN added[t] + SumAdded(S \ {t})

\* the return event of thread t
ReturnOf(t) == CHOOSE k \in DOMAIN log : log[k].t = t /\ log[k].op = "return"

\* two calls, one after the other, both returned
TwoInSequence ==
    /\ Len(log) = 4
    /\ RanAlone(2)
    /\ RanAlone(4)

\* the titles fetch_arxiv_papers reads from the feeds
FeedTitles ==
    UNION { { Strip(feeds[f][i].title) :
                i \in { k \in DOMAIN feeds[f] : "title" \in DOMAIN feeds[f][k] } } :
            f \in 1..NFeeds }

RowsTitled(title) == { r \in DOMAIN papers : papers[r].title = title }

----------------------------------------------------------------------------
\* C1: in every reachable state no two rows of papers have the same title.
C1_TitleUnique ==
    \A i, j \in DOMAIN papers : papers[i].title = papers[j].title => i = j

\* C1 witness: a second INSERT of a title met the UNIQUE constraint, and the
\* table holds that title once.
C1_Witness ==
    \E t \in Threads :
        /\ pc[t] = "raised"
        /\ log[Len(log)].exc = "IntegrityError"
        /\ Cardinality(RowsTitled(entry[t].title)) = 1

\* C2: under concurrent calls the existence check and the insert act as one
\* unit, so no call ends in an error on the insert (as the claim states it).
C2_NoInsertError ==
    \A k \in DOMAIN log : log[k].exc # "IntegrityError"

\* C3: of two calls run in sequence on the same feeds, the second returns 0
\* and leaves the corpus as the first left it, one row per feed title.
C3_Idempotent ==
    TwoInSequence =>
        /\ log[4].ret = 0
        /\ log[4].corpus = log[2].corpus
        /\ papers = log[2].corpus
        /\ \A title \in FeedTitles : Cardinality(RowsTitled(title)) = 1

\* C3 witness: two calls in sequence, the first of which added rows.
C3_Witness ==
    /\ TwoInSequence
    /\ log[2].ret >= 1
    /\ Len(papers) = log[2].ret

\* C4: every row is counted once, by the call that inserted it, and that count
\* is what the call returns; so a call run alone returns the growth of the
\* corpus over the call, and when every call begun has returned the returned
\* counts sum to the growth of the corpus.
C4_ReturnsAdded ==
    /\ SumAdded(Threads) + Cardinality({ t \in Threads : pc[t] = "commit" }) = Len(papers)
    /\ \A t \in Threads : pc[t] = "done" => log[ReturnOf(t)].ret = added[t]
    /\ \A i \in DOMAIN log :
          RanAlone(i) => log[i].ret = Len(log[i].corpus) - Len(log[i - 1].corpus)
    /\ (\A t \in Threads : pc[t] \in {"idle", "done"}) =>
          SumReturned(log) = Len(papers)

\* C4 witness: two overlapping calls have both returned, each having added a row.
C4_Witness ==
    /\ Len(log) = 4
    /\ log[1].op = "call" /\ log[2].op = "call"
    /\ log[3].op = "return" /\ log[4].op = "return"
    /\ log[3].ret >= 1 /\ log[4].ret >= 1

\* C7: no call is aborted by a feed entry lacking title, summary or link (as
\* the claim states it: the entry is skipped and the call returns normally).
C7_FailuresContained ==
    \A k \in DOMAIN log : log[k].exc # "AttributeError"

\* C10: a call that has returned leaves every title it read from the feeds in
\* the corpus (as the claim states it).
C10_IngestionComplete ==
    \A t \in Threads : pc[t] = "done" => FeedTitles \subseteq Titles(papers)

----------------------------------------------------------------------------
(* Properties of get_best_answer, over the last evaluation *)

Asked == resp.out.kind # "none"

Scored == Asked /\ resp.df # <<>> /\ DOMAIN resp.sims = DOMAIN resp.df

\* the documents of maximal similarity
Best == { i \in DOMAIN resp.sims : \A j \in DOMAIN resp.sims : resp.sims[j] <= resp.sims[i] }

AllBelow == \A i \in DOMAIN resp.sims : resp.sims[i] < Threshold

\* the insufficient-evidence outcome: empty index, or best score below threshold
InsufficientEvidence == Asked /\ (resp.df = <<>> \/ (Scored /\ AllBelow))

IsEvidence == Scored /\ ~AllBelow /\ resp.out.kind = "value"

RecommendsConsultation(text) ==
    \E i \in DOMAIN text : text[i] = "Please consult a medical professional."

\* the abstract excerpt inside an evidence answer: the text between the
\* heading and the blank line before the source
Excerpt(text) ==
    LET end == CHOOSE k \in 3..Len(text) :
                   text[k] = "\n\n" /\ \A j \in 3..(k - 1) : text[j] # "\n\n"
    IN  SubSeq(text, 3, end - 1)

\* C5: on a non-empty corpus the result is the refusal when every score is
\* below the threshold, an evidence answer from a document of maximal score
\* when some score reaches it, and nothing else (as the claim states it).
C5_ThresholdOutcomes ==
    (Asked /\ resp.df # <<>>) =>
        \/ Scored /\ AllBelow /\ resp.out = Value(WeakEvidenceMsg)
        \/ Scored /\ ~AllBelow
             /\ \E i \in Best : resp.out = Value(EvidenceText(resp.df[i]))

\* Whenever the index can be built, the outcome is decided by the threshold
\* alone: the refusal below it, an evidence answer from a best document at or
\* above it.
ThresholdWhenIndexed ==
    (Asked /\ resp.df # <<>> /\ ~IndexFails(resp.df)) =>
        \/ Scored /\ AllBelow /\ resp.out = Value(WeakEvidenceMsg)
        \/ Scored /\ ~AllBelow
             /\ \E i \in Best : resp.out = Value(EvidenceText(resp.df[i]))

C8_TieByRecency ==
    (IsEvidence /\ Cardinality(Best) >= 2) =>
        \E i \in Best :
            /\ \A j \in Best : resp.df[j].added_on <= resp.df[i].added_on
            /\ resp.out = Value(EvidenceText(resp.df[i]))

\* C9: the abstract excerpt of an evidence answer is at most Budget long (as
\* the claim states it).
C9_BudgetRespected ==
    IsEvidence => Len(Excerpt(resp.out.text)) <= Budget

====
